---- MODULE Spec2Model ----
(***************************************************************************)
(* A model of the storefront's client-side cart provider (CartProvider),   *)
(* the /api/cart route it talks to, the commerce backend behind the route, *)
(* the A/B-test middleware and the recently-viewed list.                   *)
(*                                                                         *)
(* JavaScript values are modelled with one TLA+ type each:                 *)
(*   - a cart identifier is a positive number, 0 stands for null/absent;   *)
(*   - a Cart is a record, NullCart (id 0) stands for null;                *)
(*   - a message is a sequence of text fragments (a template string is the *)
(*     concatenation of its fragments), <<>> stands for null.              *)
(***************************************************************************)
EXTENDS Integers, Sequences, FiniteSets, TLC

\* ------------------------------------------------------------------ bounds
MaxCalls == 2        \* calls of the cart context in a run where calls overlap
MaxSeqCalls == 3     \* calls of the cart context in a run of awaited calls
BulkLines == 101     \* distinct variants added in the bulk run
MaxViews == 5        \* product pages viewed since the list was last empty
MaxCarts == 2        \* carts an HTTP client has the backend create
MaxItems == 2        \* items an HTTP client puts into one cart
MaxHandlesSent == 11 \* handles in one request to /api/products/by-handles
MaxVariants == 3   \* declared variants of a test
MaxRequests == 3     \* requests the browser sends while it holds one cookie

\* ------------------------------------------------------- program constants
LINES_FIRST == 100   \* lines(first: 100) of every cart selection

VARIABLES
  \* commerce backend (Shopify)
  shop,          \* sequence of backend carts, index = cart id: [live, lines]
  \* browser
  localStorage,  \* value under "shopify_cart_id" (0: absent)
  cookie,        \* value of the cookie "shopify_cart_id" set by the route
  \* CartProvider state
  cart, isLoading, error,
  \* calls of the context functions: one record per call, in start order
  calls,
  \* history
  startId,       \* identifier stored when the provider was constructed
  onlyAdds,      \* every call made so far was an addToCart
  started,       \* the kinds of the calls made so far
  sent,          \* the requests sent to /api/cart: how many, how many of them
                 \* create-cart, and the identifiers carried by add-line requests
  created,       \* identifiers of the carts whose creation the provider handled
  last,          \* the call that settled last: [kind, result, gone, before,
                 \* req, met, resp]
  lastOk         \* cart of the most recently handled successful response

VARIABLES
  \* A/B-test middleware: one browser and the requests it sends
  jar,           \* value of the cookie "ab_hero_cta" the browser holds
  mwLast,        \* the last request handled and its response
  mwCount,       \* responses received since the browser last had no cookie
  mwFirst,       \* x-ab-heroCta of the first of those responses
  mwPrevAssign,  \* the last two requests without a cookie, with the variant
  mwLastAssign   \* each was given

VARIABLES
  \* recently-viewed list
  rvImpl,        \* "client": lib/recently-viewed.ts, "cookie": the server version
  rvStore,       \* raw value stored under "recently_viewed"
  rvClean,       \* the store was empty when the log began
  rvLog,         \* handles added since then, in order
  rvLastAdd,     \* the last addToRecentlyViewed: [handle, before]
  rvGet          \* the last getRecentlyViewed: [before, threw, value, rendered]

VARIABLES
  \* content fetches (lib/sanity.ts) behind the framework's cache
  ctCache,       \* per cached function call: the entry the cache holds
  ctGood,        \* per cached function call: the last non-null value stored
  ctFailing,     \* per cached function call: the last refresh had a failing fetch
  ctCall,        \* the last run of a fetch function: [fn, outcome, threw, value]
  ctRead,        \* the last value a reader received: [key, value]
  ctAbout        \* the last render of the About page: [given, threw, heading, body]

VARIABLES
  \* any HTTP client of /api/cart
  apiLast        \* the last exchange: [body, upstream, response, called] and
                 \* the backend before and after it

VARIABLES
  \* POST /api/products/by-handles
  phCatalog,     \* handles for which the backend has a product
  phFailing,     \* handles whose lookup fails
  phBody,        \* the list of handles of the request
  phResponse     \* the response: [status, code, products, lookups]

VARIABLES
  \* server tier (lib/cart-server.ts), cart id in the cookie
  srvLast        \* the last call: [fn, threw, cart, created, cookie] and the
                 \* cookie, the backend and its answer the call met

cartVars == <<shop, localStorage, cookie, cart, isLoading, error, calls,
              startId, onlyAdds, started, sent, created, last, lastOk>>
mwVars == <<jar, mwLast, mwCount, mwFirst, mwPrevAssign, mwLastAssign>>
rvVars == <<rvImpl, rvStore, rvClean, rvLog, rvLastAdd, rvGet>>
ctVars == <<ctCache, ctGood, ctFailing, ctCall, ctRead, ctAbout>>
apiVars == <<apiLast>>
phVars == <<phCatalog, phFailing, phBody, phResponse>>
srvVars == <<srvLast>>

\* what the actions of one part leave alone
notCart == <<mwVars, rvVars, ctVars, apiVars, phVars, srvVars>>
notMw == <<cartVars, rvVars, ctVars, apiVars, phVars, srvVars>>
notRv == <<cartVars, mwVars, ctVars, apiVars, phVars, srvVars>>
notCt == <<cartVars, mwVars, rvVars, apiVars, phVars, srvVars>>
notPh == <<cartVars, mwVars, rvVars, ctVars, apiVars, srvVars>>

\* ------------------------------------------------------------------ values
NullCart == [id |-> 0, totalQuantity |-> 0, lines |-> <<>>]
NoMessage == <<>>
NoResponse == [status |-> 0, code |-> "", message |-> NoMessage, cart |-> NullCart]

\* Inputs of the context functions: variant ids, quantities (0 is refused by
\* the route's schema) and sets of line ids.
Variants == {1, 2}
Quantities == {0, 1}

\* Raw failure details of the commerce backend (JSON.stringify(response.errors)).
UpstreamDetails == {"throttled", "resource not found"}

\* Fragments of messages that contain the text "not found".
NotFoundFragments == {"Cart not found", "resource not found"}

\* errorMessage.includes("not found")
IncludesNotFound(message) ==
  \E i \in 1..Len(message) : message[i] \in NotFoundFragments

\* Sum of the quantities of lines[lo..hi], by halves.
RECURSIVE SumRange(_, _, _)
SumRange(lines, lo, hi) ==
  IF lo > hi THEN 0
  ELSE IF lo = hi THEN lines[lo].quantity
  ELSE LET mid == (lo + hi) \div 2
       IN SumRange(lines, lo, mid) + SumRange(lines, mid + 1, hi)

SumQuantity(lines) == SumRange(lines, 1, Len(lines))

Min(a, b) == IF a < b THEN a ELSE b

\* ------------------------------------------------ commerce backend (Shopify)
\* The cart selection shared by the four GraphQL operations: id, totalQuantity
\* (the backend's count over the whole cart) and lines(first: 100).
CartSelection(id, lines) ==
  [id |-> id,
   totalQuantity |-> SumQuantity(lines),
   lines |-> SubSeq(lines, 1, Min(Len(lines), LINES_FIRST))]

IsLive(s, id) == id \in 1..Len(s) /\ s[id].live

\* cartLinesAdd: one line per variant, quantities of the same variant merge.
LinesAdd(lines, variantId, quantity) ==
  IF \E i \in 1..Len(lines) : lines[i].merchandise = variantId
  THEN [i \in 1..Len(lines) |->
          IF lines[i].merchandise = variantId
          THEN [lines[i] EXCEPT !.quantity = @ + quantity]
          ELSE lines[i]]
  ELSE Append(lines, [id |-> variantId, quantity |-> quantity,
                      merchandise |-> variantId])

\* cartLinesRemove: the lines whose id is listed are dropped.
LinesRemove(lines, lineIds) ==
  SelectSeq(lines, LAMBDA l : l.id \notin lineIds)

\* Results of the lib/shopify functions: [threw, message, cart, shop].
Threw(message, s) ==
  [threw |-> TRUE, message |-> message, cart |-> NullCart, shop |-> s]
Returned(c, s) ==
  [threw |-> FALSE, message |-> NoMessage, cart |-> c, shop |-> s]

\* `upstream` is the backend's answer: "ok" or one of UpstreamDetails
\* (response.errors set).
createCart(s, upstream) ==
  IF upstream # "ok"
  THEN Threw(<<"Shopify API error: ", upstream>>, s)
  ELSE Returned(CartSelection(Len(s) + 1, <<>>),
                Append(s, [live |-> TRUE, lines |-> <<>>]))

getCart(s, cartId, upstream) ==
  IF upstream # "ok"
  THEN Threw(<<"Shopify API error: ", upstream>>, s)
  ELSE IF IsLive(s, cartId)
       THEN Returned(CartSelection(cartId, s[cartId].lines), s)
       ELSE Returned(NullCart, s)

shopifyAddToCart(s, cartId, variantId, quantity, upstream) ==
  IF upstream # "ok"
  THEN Threw(<<"Shopify API error: ", upstream>>, s)
  ELSE IF ~IsLive(s, cartId)
       THEN Threw(<<"Add to cart errors: ", "The specified cart does not exist.">>, s)
       ELSE LET lines == LinesAdd(s[cartId].lines, variantId, quantity)
            IN Returned(CartSelection(cartId, lines),
                        [s EXCEPT ![cartId].lines = lines])

\* The line ids of `lineIds` that cart `cartId` does not contain.
UnknownLines(s, cartId, lineIds) ==
  {id \in lineIds : \A i \in 1..Len(s[cartId].lines) : s[cartId].lines[i].id # id}

\* The elements of a set of numbers in ascending order.
RECURSIVE Ascending(_)
Ascending(ids) ==
  IF ids = {} THEN <<>>
  ELSE LET least == CHOOSE x \in ids : \A y \in ids : x <= y
       IN <<least>> \o Ascending(ids \ {least})

\* The backend's user error for a line id the cart does not contain.
UnknownLineError(id) ==
  CASE id = 1 -> "The merchandise line with id 1 does not exist."
    [] id = 2 -> "The merchandise line with id 2 does not exist."
    [] OTHER -> "The merchandise line does not exist."

\* Mutant: only the first user error is reported.
UserErrorsMessageFirstOnly(prefix, messages) == <<prefix, messages[1]>>

\* `${prefix}${userErrors.map((e) => e.message).join(", ")}`
UserErrorsMessage(prefix, messages) ==
  <<prefix>> \o [k \in 1..(2 * Len(messages) - 1) |->
                   IF k % 2 = 1 THEN messages[(k + 1) \div 2] ELSE ", "]

\* The backend either ignores line ids the cart does not contain ("ok") or
\* reports one user error for each of them ("userErrors"), the cart unchanged.
shopifyRemoveFromCart(s, cartId, lineIds, upstream) ==
  IF upstream \notin {"ok", "userErrors"}
  THEN Threw(<<"Shopify API error: ", upstream>>, s)
  ELSE IF ~IsLive(s, cartId)
       THEN Threw(UserErrorsMessage("Remove from cart errors: ",
                                    <<"The specified cart does not exist.">>), s)
       ELSE IF upstream = "userErrors" /\ UnknownLines(s, cartId, lineIds) # {}
       THEN Threw(UserErrorsMessage("Remove from cart errors: ",
                    [k \in 1..Cardinality(UnknownLines(s, cartId, lineIds)) |->
                       UnknownLineError(Ascending(UnknownLines(s, cartId, lineIds))[k])]),
                  s)
       ELSE LET lines == LinesRemove(s[cartId].lines, lineIds)
            IN Returned(CartSelection(cartId, lines),
                        [s EXCEPT ![cartId].lines = lines])

\* ------------------------------------------------------------- /api/cart
\* A request as the provider builds it: [action, cartId, variantId, quantity,
\* lineIds], identifiers as numbers (0: null), lineIds as a set.
Request(action, cartId, variantId, quantity, lineIds) ==
  [action |-> action, cartId |-> cartId, variantId |-> variantId,
   quantity |-> quantity, lineIds |-> lineIds]

\* Values of the fields of a JSON body. A string that names a cart, a variant
\* or a line is String(n), String(0) is the empty string; a number is the
\* fraction n/d; the items of an array are kept as a set.
Missing == [ty |-> "undefined", n |-> 0, d |-> 1, items |-> {}]
Null == [ty |-> "null", n |-> 0, d |-> 1, items |-> {}]
String(n) == [ty |-> "string", n |-> n, d |-> 1, items |-> {}]
Number(n, d) == [ty |-> "number", n |-> n, d |-> d, items |-> {}]
List(items) == [ty |-> "array", n |-> 0, d |-> 1, items |-> items]

\* JSON.stringify({action, cartId, variantId, quantity}) and
\* JSON.stringify({action, cartId, lineIds}); the query string of the GET.
Body(req) ==
  [action |-> req.action,
   cartId |-> IF req.action = "create" THEN Missing
              ELSE IF req.cartId = 0 THEN Null ELSE String(req.cartId),
   variantId |-> IF req.action = "add" THEN String(req.variantId) ELSE Missing,
   quantity |-> IF req.action = "add" THEN Number(req.quantity, 1) ELSE Missing,
   lineIds |-> IF req.action = "remove"
               THEN List({String(id) : id \in req.lineIds}) ELSE Missing]

\* Outcome of a route handler: the response, the function of lib/shopify it
\* called ("": none), the backend and the cookie it leaves.
Answer(status, code, message, c, s, ck) ==
  [response |-> [status |-> status, code |-> code, message |-> message, cart |-> c],
   called |-> "", shop |-> s, cookie |-> ck]

After(fn, answer) == [answer EXCEPT !.called = fn]

IsString(v) == v.ty = "string"

\* Mutant: the quantity only has to be a number.
addToCartSchemaAnyNumber(body) ==
  /\ IsString(body.cartId)
  /\ IsString(body.variantId)
  /\ body.quantity.ty \in {"undefined", "number"}

\* addToCartSchema.parse(body) does not throw: cartId and variantId are
\* strings, quantity is a positive integer or is left out (default 1).
addToCartSchemaOk(body) ==
  /\ IsString(body.cartId)
  /\ IsString(body.variantId)
  /\ \/ body.quantity.ty = "undefined"
     \/ /\ body.quantity.ty = "number"
        /\ body.quantity.n % body.quantity.d = 0
        /\ body.quantity.n > 0

\* removeFromCartSchema.parse(body) does not throw: cartId is a string and
\* lineIds a list of at least one string.
removeFromCartSchemaOk(body) ==
  /\ IsString(body.cartId)
  /\ body.lineIds.ty = "array"
  /\ \A item \in body.lineIds.items : IsString(item)
  /\ Cardinality(body.lineIds.items) >= 1

\* validated.quantity
Quantity(body) ==
  IF body.quantity.ty = "undefined" THEN 1 ELSE body.quantity.n \div body.quantity.d

ValidationError(s, ck) ==
  Answer(400, "VALIDATION_ERROR", <<"Invalid request data">>, NullCart, s, ck)

POST(body, s, ck, upstream) ==
  CASE body.action = "create" ->
         LET r == createCart(s, upstream)
         IN After("createCart",
              IF r.threw
              THEN Answer(500, "INTERNAL_ERROR", r.message, NullCart, r.shop, ck)
              ELSE Answer(200, "", NoMessage, r.cart, r.shop, r.cart.id))
    [] body.action = "add" ->
         IF ~addToCartSchemaOk(body) THEN ValidationError(s, ck)
         ELSE LET r == shopifyAddToCart(s, body.cartId.n, body.variantId.n,
                                        Quantity(body), upstream)
              IN After("addToCart",
                   IF r.threw
                   THEN Answer(500, "INTERNAL_ERROR", r.message, NullCart, r.shop, ck)
                   ELSE Answer(200, "", NoMessage, r.cart, r.shop, r.cart.id))
    [] body.action = "remove" ->
         IF ~removeFromCartSchemaOk(body) THEN ValidationError(s, ck)
         ELSE LET r == shopifyRemoveFromCart(s, body.cartId.n,
                                             {item.n : item \in body.lineIds.items},
                                             upstream)
              IN After("removeFromCart",
                   IF r.threw
                   THEN Answer(500, "INTERNAL_ERROR", r.message, NullCart, r.shop, ck)
                   ELSE Answer(200, "", NoMessage, r.cart, r.shop, ck))
    [] OTHER -> Answer(400, "INVALID_ACTION", <<"Invalid action">>, NullCart, s, ck)

\* searchParams.get("cartId") is a string or null; "" is falsy
GET(cartId, s, ck, upstream) ==
  IF ~IsString(cartId) \/ cartId.n = 0
  THEN Answer(400, "MISSING_PARAM", <<"cartId query parameter is required">>,
              NullCart, s, ck)
  ELSE LET r == getCart(s, cartId.n, upstream)
       IN After("getCart",
            IF r.threw
            THEN Answer(500, "INTERNAL_ERROR", r.message, NullCart, r.shop, ck)
            ELSE IF r.cart = NullCart
                 THEN Answer(404, "NOT_FOUND", <<"Cart not found">>, NullCart, r.shop, ck)
                 ELSE Answer(200, "", NoMessage, r.cart, r.shop, ck))

Route(body, s, ck, upstream) ==
  IF body.action = "get" THEN GET(body.cartId, s, ck, upstream)
  ELSE POST(body, s, ck, upstream)

\* ------------------------------------------------------------ CartProvider
\* The provider's state as one record, so that each block of a callback is an
\* operator from state to state.
St == [cart |-> cart, isLoading |-> isLoading, error |-> error,
       localStorage |-> localStorage]

SetSt(s) ==
  /\ cart' = s.cart
  /\ isLoading' = s.isLoading
  /\ error' = s.error
  /\ localStorage' = s.localStorage

getCartId(s) == s.localStorage

\* Mutant: the new identifier is not written to localStorage.
saveCartIdSkipped(s, cartId) == s

\* localStorage.setItem(CART_ID_KEY, cartId)
saveCartId(s, cartId) == [s EXCEPT !.localStorage = cartId]

\* response.ok
ResponseOk(response) == response.status = 200

\* errorData.error?.message || fallback  (a rejected fetch carries its own
\* message, status 0)
ErrorMessage(response, fallback) ==
  IF response.message # NoMessage THEN response.message ELSE <<fallback>>

fetchCartBegin(s) == [s EXCEPT !.isLoading = TRUE, !.error = NoMessage]

fetchCartOk(s, data) == [s EXCEPT !.cart = data.cart, !.isLoading = FALSE]

fetchCartFail(s, message) ==
  IF IncludesNotFound(message)
  THEN [s EXCEPT !.error = message, !.localStorage = 0, !.cart = NullCart,
                 !.isLoading = FALSE]
  ELSE [s EXCEPT !.error = message, !.isLoading = FALSE]

\* Mutant: createCart does not reset the error of an earlier step.
createCartBeginKeepsError(s) == [s EXCEPT !.isLoading = TRUE]

createCartBegin(s) == [s EXCEPT !.isLoading = TRUE, !.error = NoMessage]

createCartOk(s, data) ==
  [saveCartId(s, data.cart.id) EXCEPT !.cart = data.cart, !.isLoading = FALSE]

createCartFail(s, message) == [s EXCEPT !.error = message, !.isLoading = FALSE]

\* Mutant: removeFromCart does not look at the identifier before it starts.
removeFromCartNeverRefuses(cartId) == FALSE

\* if (!cartId) throw new Error("No cart found")
removeFromCartRefuses(cartId) == cartId = 0

removeFromCartBegin(s) == [s EXCEPT !.isLoading = TRUE, !.error = NoMessage]

\* Mutant: a successful remove-line response does not replace the mirror.
removeFromCartOkKeepsMirror(s, data) == [s EXCEPT !.isLoading = FALSE]

removeFromCartOk(s, data) == [s EXCEPT !.cart = data.cart, !.isLoading = FALSE]

\* Mutant: a failed remove-line request leaves the loading flag set.
removeFromCartFailKeepsLoading(s, message) == [s EXCEPT !.error = message]

removeFromCartFail(s, message) == [s EXCEPT !.error = message, !.isLoading = FALSE]

\* Mutant: a failed add-line request drops the mirror, as a failed fetch does.
addToCartFailDropsCart(s, message) ==
  [s EXCEPT !.error = message, !.isLoading = FALSE, !.cart = NullCart]

addToCartFail(s, message) == [s EXCEPT !.error = message, !.isLoading = FALSE]

\* Mutant: addToCart counts the item into the mirror before the backend answers.
addToCartBeginOptimistic(s) ==
  [s EXCEPT !.isLoading = TRUE, !.error = NoMessage,
            !.cart = IF @ = NullCart THEN @
                     ELSE [@ EXCEPT !.totalQuantity = @ + 1]]

addToCartBegin(s) == [s EXCEPT !.isLoading = TRUE, !.error = NoMessage]

\* Mutant: a successful add-line response does not replace the mirror.
addToCartOkKeepsMirror(s, data) == [s EXCEPT !.isLoading = FALSE]

addToCartOk(s, data) == [s EXCEPT !.cart = data.cart, !.isLoading = FALSE]

\* ------------------------------------------------------------------ calls
\* One record per call of a context function:
\*   kind     the function called
\*   pc       "req": a request is on its way, "resp": its response has arrived,
\*            "done": the call has settled
\*   req      the request in flight (its action names the step of the call)
\*   resp     the response that arrived
\*   gone     the identifier for which the call's GET was answered 404, else 0
\*   before   the mirror and the stored identifier when the call was made
\* A settled call leaves its slot as DoneCall and its outcome in `last`.
NoSnapshot == [cart |-> NullCart, cartId |-> 0]

NewCall(kind, req) ==
  [kind |-> kind, pc |-> "req", req |-> req, resp |-> NoResponse, gone |-> 0,
   before |-> [cart |-> cart, cartId |-> localStorage], met |-> <<>>]

NoRequest == Request("none", 0, 0, 0, {})

DoneCall ==
  [NewCall("none", NoRequest) EXCEPT !.pc = "done", !.before = NoSnapshot]

\* The call that settled last: its kind, its result, the state it started in,
\* its last request, the backend state that request met and the response.
NoCall ==
  [kind |-> "none", result |-> NoMessage, gone |-> 0, before |-> NoSnapshot,
   req |-> NoRequest, met |-> <<>>, resp |-> NoResponse]

\* fetch("/api/cart", ...) is called with `req`
Send(req) ==
  sent' = [total |-> sent.total + 1,
           create |-> sent.create + (IF req.action = "create" THEN 1 ELSE 0),
           addIds |-> sent.addIds \cup (IF req.action = "add" THEN {req.cartId} ELSE {})]

Started(kind) ==
  /\ onlyAdds' = (onlyAdds /\ kind = "addToCart")
  /\ started' = started \cup {kind}

Settled == \A i \in 1..Len(calls) : calls[i].pc = "done"

\* addToCart(variantId, quantity) up to its first await
StartAddToCart(variantId, quantity) ==
  LET s1 == addToCartBegin(St)
      cartId == getCartId(s1)
      req == IF cartId = 0
             THEN Request("create", 0, variantId, quantity, {})
             ELSE Request("add", cartId, variantId, quantity, {})
  IN /\ SetSt(IF cartId = 0 THEN createCartBegin(s1) ELSE s1)
     /\ calls' = Append(calls, NewCall("addToCart", req))
     /\ Send(req)
     /\ Started("addToCart")
     /\ UNCHANGED <<shop, cookie, startId, created, last, lastOk>>
     /\ UNCHANGED notCart

\* removeFromCart(lineIds) up to its first await, or to its throw
StartRemoveFromCart(lineIds) ==
  LET cartId == getCartId(St)
      req == Request("remove", cartId, 0, 0, lineIds)
  IN /\ UNCHANGED notCart
     /\ IF removeFromCartRefuses(cartId)
        THEN /\ calls' = Append(calls, DoneCall)
             /\ last' = [kind |-> "removeFromCart",
                         result |-> <<"No cart found">>, gone |-> 0,
                         before |-> [cart |-> cart, cartId |-> localStorage],
                         req |-> NoRequest, met |-> <<>>, resp |-> NoResponse]
             /\ Started("removeFromCart")
             /\ UNCHANGED <<shop, localStorage, cookie, cart, isLoading, error,
                            startId, sent, created, lastOk>>
        ELSE /\ SetSt(removeFromCartBegin(St))
             /\ calls' = Append(calls, NewCall("removeFromCart", req))
             /\ Send(req)
             /\ Started("removeFromCart")
             /\ UNCHANGED <<shop, cookie, startId, created, last, lastOk>>

\* refreshCart() up to its first await
StartRefreshCart ==
  LET cartId == getCartId(St)
      req == IF cartId = 0
             THEN Request("create", 0, 0, 0, {})
             ELSE Request("get", cartId, 0, 0, {})
  IN /\ SetSt(IF cartId = 0 THEN createCartBegin(St) ELSE fetchCartBegin(St))
     /\ calls' = Append(calls, NewCall("refreshCart", req))
     /\ Send(req)
     /\ Started("refreshCart")
     /\ UNCHANGED <<shop, cookie, startId, created, last, lastOk>>
     /\ UNCHANGED notCart

\* The effect run when the provider mounts: with an identifier stored it
\* fetches the cart, without one it does nothing.
Mount ==
  LET cartId == getCartId(St)
      req == Request("get", cartId, 0, 0, {})
  IN /\ calls = <<>>
     /\ cartId # 0
     /\ SetSt(fetchCartBegin(St))
     /\ calls' = Append(calls, NewCall("mount", req))
     /\ Send(req)
     /\ Started("mount")
     /\ UNCHANGED <<shop, cookie, startId, created, last, lastOk>>
     /\ UNCHANGED notCart

\* The backend answers with user errors only where it is asked to remove line
\* ids from a cart that does not contain them.
UserErrorsApply(body, s) ==
  /\ body.action = "remove"
  /\ removeFromCartSchemaOk(body)
  /\ IsLive(s, body.cartId.n)
  /\ UnknownLines(s, body.cartId.n, {item.n : item \in body.lineIds.items}) # {}

\* The route handles the request of call i; `upstream` is the backend's answer.
Deliver(i, upstream) ==
  LET a == Route(Body(calls[i].req), shop, cookie, upstream)
  IN /\ calls[i].pc = "req"
     /\ upstream = "userErrors" => UserErrorsApply(Body(calls[i].req), shop)
     /\ shop' = a.shop
     /\ cookie' = a.cookie
     /\ calls' = [calls EXCEPT ![i].pc = "resp", ![i].resp = a.response,
                               ![i].met = shop]
     /\ UNCHANGED <<localStorage, cart, isLoading, error, startId, onlyAdds, started,
                    sent, created, last, lastOk>>
     /\ UNCHANGED notCart

\* fetch() rejects: the request never reached the route.
NetworkFail(i) ==
  /\ calls[i].pc = "req"
  /\ calls' = [calls EXCEPT ![i].pc = "resp",
                            ![i].resp = [status |-> 0, code |-> "",
                                         message |-> <<"Failed to fetch">>,
                                         cart |-> NullCart]]
  /\ UNCHANGED <<shop, localStorage, cookie, cart, isLoading, error, startId,
                 onlyAdds, started, sent, created, last, lastOk>>
  /\ UNCHANGED notCart

\* The call settles: resolved (NoMessage) or rejected with `message`.
Finish(i, message) ==
  /\ calls' = [calls EXCEPT ![i] = DoneCall]
  /\ last' = [kind |-> calls[i].kind, result |-> message, gone |-> calls[i].gone,
              before |-> calls[i].before, req |-> calls[i].req,
              met |-> calls[i].met, resp |-> calls[i].resp]

\* createCart() from the arrival of its response; inside addToCart the call
\* goes on to send the add-line request for the new cart.
HandleCreate(i) ==
  LET c == calls[i]
      message == ErrorMessage(c.resp, "Failed to create cart")
      req == Request("add", c.resp.cart.id, c.req.variantId, c.req.quantity, {})
  IN /\ c.pc = "resp" /\ c.req.action = "create"
     /\ IF ResponseOk(c.resp)
        THEN /\ SetSt(createCartOk(St, c.resp))
             /\ lastOk' = c.resp.cart
             /\ created' = created \cup {c.resp.cart.id}
             /\ IF c.kind = "addToCart"
                THEN /\ calls' = [calls EXCEPT ![i].pc = "req", ![i].req = req]
                     /\ Send(req)
                     /\ UNCHANGED last
                ELSE /\ Finish(i, NoMessage)
                     /\ UNCHANGED sent
        ELSE /\ SetSt(IF c.kind = "addToCart"
                      THEN addToCartFail(createCartFail(St, message), message)
                      ELSE createCartFail(St, message))
             /\ Finish(i, message)
             /\ UNCHANGED <<sent, created, lastOk>>
     /\ UNCHANGED <<shop, cookie, startId, onlyAdds, started>>
     /\ UNCHANGED notCart

\* fetchCart(cartId) from the arrival of its response; when it throws, both
\* refreshCart and the mount effect go on to createCart().
HandleGet(i) ==
  LET c == calls[i]
      message == ErrorMessage(c.resp, "Failed to fetch cart")
      req == Request("create", 0, 0, 0, {})
  IN /\ c.pc = "resp" /\ c.req.action = "get"
     /\ IF ResponseOk(c.resp)
        THEN /\ SetSt(fetchCartOk(St, c.resp))
             /\ lastOk' = c.resp.cart
             /\ Finish(i, NoMessage)
             /\ UNCHANGED sent
        ELSE /\ SetSt(createCartBegin(fetchCartFail(St, message)))
             /\ calls' = [calls EXCEPT ![i].pc = "req", ![i].req = req,
                                       ![i].gone = IF c.resp.status = 404
                                                    THEN c.req.cartId ELSE 0]
             /\ Send(req)
             /\ UNCHANGED <<last, lastOk>>
     /\ UNCHANGED <<shop, cookie, startId, onlyAdds, started, created>>
     /\ UNCHANGED notCart

\* addToCart from the arrival of the add-line response
HandleAdd(i) ==
  LET c == calls[i]
      message == ErrorMessage(c.resp, "Failed to add item to cart")
  IN /\ c.pc = "resp" /\ c.req.action = "add"
     /\ IF ResponseOk(c.resp)
        THEN /\ SetSt(addToCartOk(St, c.resp))
             /\ lastOk' = c.resp.cart
             /\ Finish(i, NoMessage)
        ELSE /\ SetSt(addToCartFail(St, message))
             /\ Finish(i, message)
             /\ UNCHANGED lastOk
     /\ UNCHANGED <<shop, cookie, startId, onlyAdds, started, sent, created>>
     /\ UNCHANGED notCart

\* removeFromCart from the arrival of its response
HandleRemove(i) ==
  LET c == calls[i]
      message == ErrorMessage(c.resp, "Failed to remove item from cart")
  IN /\ c.pc = "resp" /\ c.req.action = "remove"
     /\ IF ResponseOk(c.resp)
        THEN /\ SetSt(removeFromCartOk(St, c.resp))
             /\ lastOk' = c.resp.cart
             /\ Finish(i, NoMessage)
        ELSE /\ SetSt(removeFromCartFail(St, message))
             /\ Finish(i, message)
             /\ UNCHANGED lastOk
     /\ UNCHANGED <<shop, cookie, startId, onlyAdds, started, sent, created>>
     /\ UNCHANGED notCart

\* The backend drops a cart (carts expire).
ExpireCart(id) ==
  /\ IsLive(shop, id)
  /\ shop' = [shop EXCEPT ![id].live = FALSE]
  /\ UNCHANGED <<localStorage, cookie, cart, isLoading, error, calls, startId,
                 onlyAdds, started, sent, created, last, lastOk>>
  /\ UNCHANGED notCart

\* A first visit, or a return visit with a cart of an earlier session, which
\* the backend still has or has dropped.
CartInit ==
  /\ cart = NullCart /\ isLoading = FALSE /\ error = NoMessage
  /\ calls = <<>> /\ lastOk = NullCart
  /\ onlyAdds = TRUE /\ started = {} /\ created = {} /\ last = NoCall
  /\ sent = [total |-> 0, create |-> 0, addIds |-> {}]
  /\ \/ shop = <<>> /\ localStorage = 0
     \/ /\ localStorage = 1
        /\ \E live \in BOOLEAN :
             shop = <<[live |-> live,
                       lines |-> <<[id |-> 1, quantity |-> 1, merchandise |-> 1]>>]>>
  /\ cookie = localStorage
  /\ startId = localStorage

Upstreams == {"ok", "userErrors"} \cup UpstreamDetails

CartStep(sequential) ==
  \/ /\ Len(calls) < (IF sequential THEN MaxSeqCalls ELSE MaxCalls)
     /\ sequential => Settled
     /\ \/ \E v \in Variants, q \in Quantities : StartAddToCart(v, q)
        \/ \E ids \in SUBSET Variants : StartRemoveFromCart(ids)
        \/ StartRefreshCart
  \/ Mount
  \/ \E i \in 1..Len(calls) :
       \/ \E u \in Upstreams : Deliver(i, u)
       \/ NetworkFail(i)
       \/ HandleCreate(i)
       \/ HandleGet(i)
       \/ HandleAdd(i)
       \/ HandleRemove(i)
  \/ \E id \in 1..Len(shop) : ExpireCart(id)

\* One client that adds one new variant after the other to its cart, every
\* call awaited and every request answered.
BulkStep ==
  \/ /\ Settled
     /\ Len(calls) < BulkLines
     /\ StartAddToCart(Len(calls) + 1, 1)
  \/ /\ calls # <<>>
     /\ \/ Deliver(Len(calls), "ok")
        \/ HandleCreate(Len(calls))
        \/ HandleAdd(Len(calls))

\* ================================================= A/B-test middleware
\* Header values and the client identity are strings of character codes
\* (charCodeAt), <<>> is the empty string and Absent a header that is not sent.
\* Cookie values are TLA+ strings, NoCookie a cookie that is not sent.
Absent == <<-1>>
NoCookie == "<no cookie>"

Unknown == <<117, 110, 107, 110, 111, 119, 110>>   \* "unknown"
Comma == 44
Hyphen == <<45>>

\* AB_TESTS.heroCta
HeroCtaVariants == <<"control", "variant-a">>

\* 32-bit words as [hi, lo], two 16-bit halves (TLC's integers stop at 2^31 - 1).
Zero32 == [hi |-> 0, lo |-> 0]

\* Mutant: the word is shifted by four bits.
Shl4(w) ==
  LET lo == w.lo * 16
      hi == w.hi * 16 + lo \div 65536
  IN [hi |-> hi % 65536, lo |-> lo % 65536]

\* w << 5, wrapped to 32 bits
Shl5(w) ==
  LET lo == w.lo * 32
      hi == w.hi * 32 + lo \div 65536
  IN [hi |-> hi % 65536, lo |-> lo % 65536]

\* a - b, wrapped to 32 bits
Sub32(a, b) ==
  LET lo == a.lo - b.lo
      borrow == IF lo < 0 THEN 1 ELSE 0
  IN [hi |-> (a.hi - b.hi - borrow + 131072) % 65536, lo |-> (lo + 65536) % 65536]

\* w + char, wrapped to 32 bits (char is a UTF-16 code unit)
AddChar32(w, char) ==
  LET lo == w.lo + char
  IN [hi |-> (w.hi + lo \div 65536) % 65536, lo |-> lo % 65536]

Int32 == [hi : 0..65535, lo : 0..65535]

\* hash = (hash << 5) - hash + char; hash = hash & hash
HashStep[hash \in Int32, char \in 0..65535] ==
  AddChar32(Sub32(Shl5(hash), hash), char)

\* the loop over the characters of the identifier, from the i-th on
RECURSIVE HashFrom(_, _, _)
HashFrom(hash, userIdentifier, i) ==
  IF i > Len(userIdentifier) THEN hash
  ELSE HashFrom(HashStep[hash, userIdentifier[i]], userIdentifier, i + 1)

\* The word read as a signed number is negative.
Negative32(w) == w.hi >= 32768

\* Math.abs(hash) % n for the signed reading of the word
AbsMod(w, n) ==
  LET m == IF Negative32(w) THEN Sub32(Zero32, w) ELSE w
  IN ((m.hi % n) * (65536 % n) + m.lo) % n

assignVariant(variants, userIdentifier) ==
  LET hash == HashFrom(Zero32, userIdentifier, 1)
      index == AbsMod(hash, Len(variants))
  IN variants[index + 1]

\* header.split(",")[0]
RECURSIVE FirstEntryFrom(_, _)
FirstEntryFrom(header, i) ==
  IF i > Len(header) \/ header[i] = Comma THEN <<>>
  ELSE <<header[i]>> \o FirstEntryFrom(header, i + 1)

\* a || b on header values: null and "" are falsy
OrElse(a, b) == IF a = Absent \/ a = <<>> THEN b ELSE a

\* Mutant: the whole x-forwarded-for header is used, not its first entry.
getUserIdentifierWholeHeader(request) ==
  OrElse(request.xff, OrElse(request.realIp, Unknown))
    \o Hyphen \o OrElse(request.userAgent, Unknown)

getUserIdentifier(request) ==
  LET ip == OrElse(IF request.xff = Absent THEN Absent
                   ELSE FirstEntryFrom(request.xff, 1),
                   OrElse(request.realIp, Unknown))
      userAgent == OrElse(request.userAgent, Unknown)
  IN ip \o Hyphen \o userAgent

IsVariant(variants, value) == \E k \in 1..Len(variants) : variants[k] = value

\* Mutant: a cookie is reused whatever its value.
middlewareReusesAnyCookie(request) ==
  LET existingVariant == request.cookie
      variant == assignVariant(HeroCtaVariants, getUserIdentifier(request))
  IN IF existingVariant # NoCookie /\ existingVariant # ""
     THEN [header |-> existingVariant, setCookie |-> NoCookie]
     ELSE [header |-> variant, setCookie |-> variant]

\* Mutant: the cookie is ignored and a variant assigned on every request.
middlewareAlwaysAssigns(request) ==
  LET variant == assignVariant(HeroCtaVariants, getUserIdentifier(request))
  IN [header |-> variant, setCookie |-> variant]

\* The response of the middleware: the x-ab-heroCta header and the value of
\* the ab_hero_cta cookie it sets (NoCookie: it sets none).
middleware(request) ==
  LET existingVariant == request.cookie
      variant == assignVariant(HeroCtaVariants, getUserIdentifier(request))
  IN IF existingVariant # NoCookie /\ existingVariant # ""
        /\ IsVariant(HeroCtaVariants, existingVariant)
     THEN [header |-> existingVariant, setCookie |-> NoCookie]
     ELSE [header |-> variant, setCookie |-> variant]

\* Requests of the browser: header values it may send ("1", "2", "1,1", "a",
\* and "8bkwyyy": the hash of "8bkwyyy-unknown" is -2^31).
XffValues == {Absent, <<>>, <<49>>, <<50>>, <<49, 44, 49>>,
              <<56, 98, 107, 119, 121, 121, 121>>}
RealIpValues == {Absent, <<49>>, <<50>>}
UserAgentValues == {Absent, <<97>>}

HttpRequest(xff, realIp, userAgent, ck) ==
  [xff |-> xff, realIp |-> realIp, userAgent |-> userAgent, cookie |-> ck]

NoExchange == [request |-> HttpRequest(Absent, Absent, Absent, NoCookie),
               header |-> NoCookie, setCookie |-> NoCookie]
NoAssign == [request |-> HttpRequest(Absent, Absent, Absent, NoCookie),
             variant |-> NoCookie]

\* The browser sends a request with the cookie it holds and stores the cookie
\* of the response.
MwRequest(xff, realIp, userAgent) ==
  LET request == HttpRequest(xff, realIp, userAgent, jar)
      response == middleware(request)
  IN /\ jar' = IF response.setCookie # NoCookie THEN response.setCookie ELSE jar
     /\ mwLast' = [request |-> request, header |-> response.header,
                   setCookie |-> response.setCookie]
     /\ mwCount' = mwCount + 1
     /\ mwFirst' = IF mwCount = 0 THEN response.header ELSE mwFirst
     /\ IF request.cookie = NoCookie
        THEN /\ mwPrevAssign' = mwLastAssign
             /\ mwLastAssign' = [request |-> request, variant |-> response.header]
        ELSE UNCHANGED <<mwPrevAssign, mwLastAssign>>
     /\ UNCHANGED notMw

\* The cookie is gone: it expired (maxAge of 30 days) or was cleared.
MwCookieGone ==
  /\ jar # NoCookie
  /\ jar' = NoCookie
  /\ mwCount' = 0
  /\ mwFirst' = NoCookie
  /\ mwLast' = NoExchange
  /\ UNCHANGED <<mwPrevAssign, mwLastAssign>>
  /\ UNCHANGED notMw

\* A browser without the cookie, or with a value no test declares.
MwInit ==
  /\ jar \in {NoCookie, "", "bogus"}
  /\ mwLast = NoExchange
  /\ mwCount = 0
  /\ mwFirst = NoCookie
  /\ mwPrevAssign = NoAssign
  /\ mwLastAssign = NoAssign

MwStep ==
  \/ /\ mwCount < MaxRequests
     /\ \E xff \in XffValues, realIp \in RealIpValues, userAgent \in UserAgentValues :
          MwRequest(xff, realIp, userAgent)
  \/ MwCookieGone

\* ================================================= recently viewed products
\* The list is kept as JSON text under one key, in localStorage
\* (lib/recently-viewed.ts) or in a cookie (the "use server" version).
\* A text is a sequence of tokens, a JavaScript value a record [k, items].
MAX_RECENT_ITEMS == 3

Handles == {"a", "b", "c", "d"}

Str(v) == [ty |-> "string", v |-> v]
Num(v) == [ty |-> "number", v |-> v]

Array(items) == [k |-> "array", items |-> items]
JsNull == [k |-> "null", items |-> <<>>]
JsObject == [k |-> "object", items |-> <<>>]
Scalar(item) == [k |-> item.ty, items |-> <<item>>]
Undefined == [k |-> "undefined", items |-> <<>>]

Punct(c) == [tok |-> "punct", v |-> c]
Literal(item) == [tok |-> item.ty, v |-> item.v]
IsLiteral(token) == token.tok \in {"string", "number"}

\* items joined with commas
RECURSIVE Joined(_)
Joined(items) ==
  IF items = <<>> THEN <<>>
  ELSE IF Len(items) = 1 THEN <<Literal(items[1])>>
  ELSE <<Literal(items[1]), Punct(",")>> \o Joined(Tail(items))

JSONstringify(value) ==
  CASE value.k = "array" -> <<Punct("[")>> \o Joined(value.items) \o <<Punct("]")>>
    [] value.k = "null" -> <<[tok |-> "null", v |-> "null"]>>
    [] value.k = "object" -> <<Punct("{"), Punct("}")>>
    [] OTHER -> <<Literal(value.items[1])>>

\* the tokens between the brackets are literals separated by commas
WellFormedElements(inner) ==
  /\ Len(inner) % 2 = 1
  /\ \A k \in 1..Len(inner) :
       IF k % 2 = 1 THEN IsLiteral(inner[k]) ELSE inner[k] = Punct(",")

Elements(inner) ==
  [k \in 1..((Len(inner) + 1) \div 2) |->
     [ty |-> inner[2 * k - 1].tok, v |-> inner[2 * k - 1].v]]

Parsed(value) == [threw |-> FALSE, value |-> value]
SyntaxError == [threw |-> TRUE, value |-> Undefined]

\* JSON.parse: the value of the text, or a SyntaxError
JSONparse(text) ==
  IF text = <<>> THEN SyntaxError
  ELSE IF Len(text) = 1
  THEN IF IsLiteral(text[1]) THEN Parsed(Scalar([ty |-> text[1].tok, v |-> text[1].v]))
       ELSE IF text[1].tok = "null" THEN Parsed(JsNull)
       ELSE SyntaxError
  ELSE IF text = <<Punct("{"), Punct("}")>> THEN Parsed(JsObject)
  ELSE IF text[1] = Punct("[") /\ text[Len(text)] = Punct("]")
  THEN LET inner == SubSeq(text, 2, Len(text) - 1)
       IN IF inner = <<>> THEN Parsed(Array(<<>>))
          ELSE IF WellFormedElements(inner) THEN Parsed(Array(Elements(inner)))
          ELSE SyntaxError
  ELSE SyntaxError

\* The stored entry: missing, or a text.
NoEntry == [present |-> FALSE, text |-> <<>>]
Entry(text) == [present |-> TRUE, text |-> text]

\* lib/recently-viewed.ts: the value returned and the storage left behind
localGetRecentlyViewed(store) ==
  IF ~store.present \/ store.text = <<>>
  THEN [threw |-> FALSE, value |-> Array(<<>>), store |-> store]
  ELSE LET parsed == JSONparse(store.text)
       IN IF parsed.threw
          THEN [threw |-> FALSE, value |-> Array(<<>>), store |-> NoEntry]
          ELSE IF parsed.value.k = "array"
          THEN [threw |-> FALSE, value |-> Array(SelectSeq(parsed.value.items, IsString)),
                store |-> store]
          ELSE [threw |-> FALSE, value |-> Array(<<>>), store |-> store]

\* the cookie version: the parsed value as it is, or the error of JSON.parse
cookieGetRecentlyViewed(store) ==
  IF ~store.present
  THEN [threw |-> FALSE, value |-> Array(<<>>), store |-> store]
  ELSE LET parsed == JSONparse(store.text)
       IN [threw |-> parsed.threw, value |-> parsed.value, store |-> store]

getRecentlyViewed(impl, store) ==
  IF impl = "local" THEN localGetRecentlyViewed(store) ELSE cookieGetRecentlyViewed(store)

\* Mutant: a handle already in the list is not removed from it.
updatedKeepsDuplicate(handle, current) ==
  SubSeq(<<Str(handle)>> \o current, 1, Min(MAX_RECENT_ITEMS, Len(current) + 1))

\* Mutant: the new handle goes to the back of the list.
updatedAppends(handle, current) ==
  LET filtered == SelectSeq(current, LAMBDA h : h # Str(handle))
  IN SubSeq(filtered \o <<Str(handle)>>, 1, Min(MAX_RECENT_ITEMS, Len(filtered) + 1))

\* [handle, ...current.filter((h) => h !== handle)].slice(0, MAX_RECENT_ITEMS)
updated(handle, current) ==
  LET filtered == SelectSeq(current, LAMBDA h : h # Str(handle))
  IN SubSeq(<<Str(handle)>> \o filtered, 1, Min(MAX_RECENT_ITEMS, Len(filtered) + 1))

\* The storage after addToRecentlyViewed(handle). An error of the read, or of
\* calling filter on a value that is no array, is caught and nothing is stored.
addToRecentlyViewed(impl, store, handle) ==
  LET current == getRecentlyViewed(impl, store)
  IN IF current.threw \/ current.value.k # "array" THEN current.store
     ELSE Entry(JSONstringify(Array(updated(handle, current.value.items))))

\* The RecentlyViewed section. The server component reads the cookie and
\* maps over the value if its length is positive; the client component reads
\* localStorage inside a try block.
RecentlyViewed(impl, store) ==
  LET handles == getRecentlyViewed(impl, store)
      rendered ==
        IF impl = "local" THEN TRUE
        ELSE /\ ~handles.threw
             /\ handles.value.k # "null"
             /\ ~(handles.value.k = "string" /\ handles.value.items[1].v # "")
  IN [before |-> store, threw |-> handles.threw, value |-> handles.value,
      rendered |-> rendered, store |-> handles.store]

NoAdd == [handle |-> "", before |-> NoEntry, after |-> NoEntry]
NoRender == [before |-> NoEntry, threw |-> FALSE, value |-> Undefined,
             rendered |-> FALSE, store |-> NoEntry]

\* A product page is viewed.
RvView(handle) ==
  LET after == addToRecentlyViewed(rvImpl, rvStore, handle)
  IN /\ rvStore' = after
     /\ rvLastAdd' = [handle |-> handle, before |-> rvStore, after |-> after]
     /\ rvLog' = Append(rvLog, handle)
     /\ UNCHANGED <<rvImpl, rvClean, rvGet>>
     /\ UNCHANGED notRv

\* The home page renders the section.
RvRender ==
  LET section == RecentlyViewed(rvImpl, rvStore)
  IN /\ rvGet' = [before |-> section.before, threw |-> section.threw,
                  value |-> section.value, rendered |-> section.rendered,
                  store |-> section.store]
     /\ rvStore' = section.store
     /\ UNCHANGED <<rvImpl, rvClean, rvLog, rvLastAdd>>
     /\ UNCHANGED notRv

\* clearRecentlyViewed() of lib/recently-viewed.ts, or the end of the browser
\* session the cookie lives for.
RvClear ==
  /\ rvStore.present
  /\ rvStore' = NoEntry
  /\ rvClean' = TRUE
  /\ rvLog' = <<>>
  /\ rvLastAdd' = NoAdd
  /\ rvGet' = NoRender
  /\ UNCHANGED rvImpl
  /\ UNCHANGED notRv

\* Values the key may hold when the visit starts: nothing, a list written by
\* an earlier visit, or a value written by something else.
StoredLists == {<<>>, <<"b">>, <<"a", "b", "c">>}
Strs(handles) == [k \in 1..Len(handles) |-> Str(handles[k])]
CorruptTexts ==
  { <<>>,                                             \* the empty string
    <<Punct("[")>>,                                   \* "["
    <<Punct("["), Literal(Str("a")), Punct(",")>>,    \* '["a",'
    JSONstringify(JsNull),
    JSONstringify(JsObject),
    JSONstringify(Scalar(Num("1"))),
    JSONstringify(Scalar(Str("a"))),
    JSONstringify(Array(<<Num("1"), Str("a")>>)) }

RvInit ==
  /\ rvImpl \in {"local", "cookie"}
  /\ rvStore \in {NoEntry}
       \cup {Entry(JSONstringify(Array(Strs(l)))) : l \in StoredLists}
       \cup {Entry(text) : text \in CorruptTexts}
  /\ rvClean = (rvStore = NoEntry)
  /\ rvLog = <<>>
  /\ rvLastAdd = NoAdd
  /\ rvGet = NoRender

RvIdle == RvInit /\ rvImpl = "local" /\ rvStore = NoEntry

RvStep ==
  \/ /\ Len(rvLog) < MaxViews
     /\ \E handle \in Handles : RvView(handle)
  \/ RvRender
  \/ RvClear

\* ================================================= content (lib/sanity.ts)
\* A content value is a record; NullContent stands for null. The empty string
\* stands for a field the document does not have.
NullContent == [isNull |-> TRUE, of |-> "", title |-> "", content |-> ""]
Document(key, title, content) ==
  [isNull |-> FALSE, of |-> key, title |-> title, content |-> content]

\* What one call of the content backend does: it answers the query with a
\* document or with none, it fails, the prerender is aborted, or the client
\* cannot be built (getSanityEnv throws).
ContentAnswers == {"first", "second", "bare", "none"}
ContentFailures == {"error", "prerender", "env"}
ContentOutcomes == ContentAnswers \cup ContentFailures

\* client.fetch(query): the first match, or nothing
clientFetch(key, outcome) ==
  CASE outcome = "first" -> Document(key, "Our story", "We clean.")
    [] outcome = "second" -> Document(key, "Who we are", "We still clean.")
    [] outcome = "bare" -> Document(key, "", "")
    [] OTHER -> NullContent

\* Mutant: the client is built outside the try block.
contentFetchClientOutsideTry(fn, key, outcome) ==
  IF outcome = "env"
  THEN [fn |-> fn, outcome |-> outcome, threw |-> TRUE, value |-> NullContent,
        logged |-> FALSE]
  ELSE [fn |-> fn, outcome |-> outcome, threw |-> FALSE,
        value |-> IF outcome \in ContentFailures THEN NullContent
                  ELSE clientFetch(key, outcome),
        logged |-> outcome = "error"]

\* The body shared by the fetch functions: try { getSanityClient();
\* return (await client.fetch(query)) || null } catch { log; return null }.
\* The cached versions do not log an aborted prerender.
contentFetch(fn, key, outcome) ==
  [fn |-> fn, outcome |-> outcome, threw |-> FALSE,
   value |-> IF outcome \in ContentFailures THEN NullContent
             ELSE clientFetch(key, outcome),
   logged |-> IF fn = "getServiceContent" THEN outcome \in ContentFailures
              ELSE outcome \in {"error", "env"}]

getHomepageContent(outcome) == contentFetch("getHomepageContent", "homepage", outcome)
getPageBySlug(slug, outcome) == contentFetch("getPageBySlug", slug, outcome)
getServiceContent(handle, outcome) == contentFetch("getServiceContent", handle, outcome)

\* The calls the framework caches ('use cache'), keyed by function and argument.
CachedKeys == {"homepage", "about"}

RunCached(key, outcome) ==
  IF key = "homepage" THEN getHomepageContent(outcome) ELSE getPageBySlug(key, outcome)

\* A cache entry: absent, or a value that is fresh or stale (cacheLife),
\* with a background refresh under way or not.
NoCacheEntry == [present |-> FALSE, value |-> NullContent, stale |-> FALSE,
                 refreshing |-> FALSE]
Fresh(value) == [present |-> TRUE, value |-> value, stale |-> FALSE,
                 refreshing |-> FALSE]

\* The cache after the function has run for `key`: the value of a run that
\* returned is stored, a run that threw leaves the entry as it was.
Stored(entry, run) ==
  IF run.threw THEN [entry EXCEPT !.refreshing = FALSE] ELSE Fresh(run.value)

\* About page: pageContent?.title || "About TurnSet Clean", and the content or
\* the "Content coming soon" box.
AboutPage(pageContent, threw) ==
  [given |-> pageContent, threw |-> threw,
   heading |-> IF threw THEN ""
               ELSE IF ~pageContent.isNull /\ pageContent.title # ""
               THEN pageContent.title ELSE "About TurnSet Clean",
   body |-> IF threw THEN ""
            ELSE IF ~pageContent.isNull /\ pageContent.content # ""
            THEN pageContent.content ELSE "Content coming soon"]

NoCtCall == [fn |-> "", outcome |-> "", threw |-> FALSE, value |-> NullContent,
             logged |-> FALSE]
NoCtRead == [key |-> "", threw |-> FALSE, value |-> NullContent]
NoAbout == [given |-> NullContent, threw |-> FALSE, heading |-> "", body |-> ""]

\* History of the refreshes of `key` after `run` has been stored.
CtRecord(key, run) ==
  /\ ctCall' = run
  /\ ctFailing' = [ctFailing EXCEPT ![key] = run.outcome \in ContentFailures]
  /\ ctGood' = IF run.outcome \in ContentAnswers
               THEN [ctGood EXCEPT ![key] = run.value]
               ELSE ctGood

\* A render reads the cached function for `key`. Without an entry the
\* function runs and the reader waits for it; with one the reader gets its
\* value at once, and a stale entry starts a refresh in the background.
\* The About page renders what it read.
CtReadCached(key, outcome) ==
  LET entry == ctCache[key]
      run == RunCached(key, outcome)
      value == IF entry.present THEN entry.value ELSE run.value
      threw == ~entry.present /\ run.threw
  IN /\ IF entry.present
        THEN /\ outcome = "none"
             /\ ctCache' = [ctCache EXCEPT ![key].refreshing = entry.stale]
             /\ UNCHANGED <<ctCall, ctFailing, ctGood>>
        ELSE /\ ctCache' = [ctCache EXCEPT ![key] = Stored(entry, run)]
             /\ CtRecord(key, run)
     /\ ctRead' = [key |-> key, threw |-> threw, value |-> value]
     /\ ctAbout' = IF key = "about" THEN AboutPage(value, threw) ELSE ctAbout
     /\ UNCHANGED notCt

\* The background refresh of a stale entry runs the function.
CtRefresh(key, outcome) ==
  LET run == RunCached(key, outcome)
  IN /\ ctCache[key].present /\ ctCache[key].refreshing
     /\ ctCache' = [ctCache EXCEPT ![key] = Stored(ctCache[key], run)]
     /\ CtRecord(key, run)
     /\ UNCHANGED <<ctRead, ctAbout>>
     /\ UNCHANGED notCt

\* The entry's lifetime passes (cacheLife('hours')) or its tag is purged.
CtExpire(key) ==
  /\ ctCache[key].present /\ ~ctCache[key].stale
  /\ ctCache' = [ctCache EXCEPT ![key].stale = TRUE]
  /\ UNCHANGED <<ctGood, ctFailing, ctCall, ctRead, ctAbout>>
  /\ UNCHANGED notCt

\* A service page reads getServiceContent(handle), which no cache wraps.
CtReadService(outcome) ==
  LET run == getServiceContent("deep-clean", outcome)
  IN /\ ctCall' = run
     /\ ctRead' = [key |-> "deep-clean", threw |-> run.threw, value |-> run.value]
     /\ UNCHANGED <<ctCache, ctGood, ctFailing, ctAbout>>
     /\ UNCHANGED notCt

CtInit ==
  /\ ctCache = [key \in CachedKeys |-> NoCacheEntry]
  /\ ctGood = [key \in CachedKeys |-> NullContent]
  /\ ctFailing = [key \in CachedKeys |-> FALSE]
  /\ ctCall = NoCtCall
  /\ ctRead = NoCtRead
  /\ ctAbout = NoAbout

CtStep ==
  \/ \E key \in CachedKeys, outcome \in ContentOutcomes : CtReadCached(key, outcome)
  \/ \E key \in CachedKeys, outcome \in ContentOutcomes : CtRefresh(key, outcome)
  \/ \E key \in CachedKeys : CtExpire(key)
  \/ \E outcome \in ContentOutcomes : CtReadService(outcome)

\* ================================================= /api/cart, any client
\* The route is reachable by any HTTP client, which may send any JSON body.
\* Fields the handler of the action does not read are left out.
CartIdValues == {Missing, Number(1, 1), String(0), String(1)}
VariantIdValues == {Missing, Number(1, 1), String(1)}
QuantityValues == {Missing, Null, Number(1, 1), Number(0, 1), Number(3, 2), String(1)}
LineIdsValues == {Missing, String(1), List({}), List({String(1)}), List({String(2)}),
                  List({String(2), String(3)}), List({String(1), Number(1, 1)})}

Bodies ==
  {[action |-> "create", cartId |-> Missing, variantId |-> Missing,
    quantity |-> Missing, lineIds |-> Missing],
   [action |-> "clear", cartId |-> Missing, variantId |-> Missing,
    quantity |-> Missing, lineIds |-> Missing]}
  \cup {[action |-> "get", cartId |-> c, variantId |-> Missing,
         quantity |-> Missing, lineIds |-> Missing] : c \in CartIdValues}
  \cup {[action |-> "add", cartId |-> c, variantId |-> v, quantity |-> q,
         lineIds |-> Missing] :
          c \in CartIdValues, v \in VariantIdValues, q \in QuantityValues}
  \cup {[action |-> "remove", cartId |-> c, variantId |-> Missing,
         quantity |-> Missing, lineIds |-> l] :
          c \in CartIdValues, l \in LineIdsValues}

NoExchangeYet ==
  [body |-> [action |-> "", cartId |-> Missing, variantId |-> Missing,
             quantity |-> Missing, lineIds |-> Missing],
   upstream |-> "", response |-> NoResponse, called |-> "", before |-> <<>>,
   after |-> <<>>]

\* The items in cart `id` of the backend.
Items(s, id) == IF IsLive(s, id) THEN SumQuantity(s[id].lines) ELSE 0

\* The route handles one request.
ApiRequest(body, upstream) ==
  LET a == Route(body, shop, cookie, upstream)
  IN /\ a.called = "" => upstream = "ok"
     /\ upstream = "userErrors" => UserErrorsApply(body, shop)
     /\ body.action = "create" => Len(shop) < MaxCarts
     /\ body.action = "add" => Items(shop, body.cartId.n) < MaxItems
     /\ shop' = a.shop
     /\ cookie' = a.cookie
     /\ apiLast' = [body |-> body, upstream |-> upstream, response |-> a.response,
                    called |-> a.called, before |-> shop, after |-> a.shop]
     /\ UNCHANGED <<localStorage, cart, isLoading, error, calls, startId,
                    onlyAdds, started, sent, created, last, lastOk>>
     /\ UNCHANGED <<mwVars, rvVars, ctVars, phVars, srvVars>>

ApiIdle == apiLast = NoExchangeYet

ApiStep ==
  \/ \E body \in Bodies, upstream \in Upstreams : ApiRequest(body, upstream)
  \/ \E id \in 1..Len(shop) : ExpireCart(id)

\* ================================================= /api/products/by-handles
\* handlesSchema = z.array(z.string()).max(10)
MAX_HANDLES == 10

ProductHandles == {"a", "b", "c"}

Product(handle) == [handle |-> handle, title |-> handle]
NoProduct == [handle |-> "", title |-> ""]

\* getServiceProductByHandle(handle): the product, null, or an error
getServiceProductByHandle(handle, catalog, failing) ==
  IF handle \in failing THEN [threw |-> TRUE, product |-> NoProduct]
  ELSE IF handle \in catalog THEN [threw |-> FALSE, product |-> Product(handle)]
  ELSE [threw |-> FALSE, product |-> NoProduct]

\* Mutant: the list may have any length.
handlesSchemaOkAnyLength(body) == TRUE

handlesSchemaOk(body) == Len(body) <= MAX_HANDLES

\* handles.map(async (handle) => { try { return await lookup } catch { return null } })
Lookups(handles, catalog, failing) ==
  [k \in 1..Len(handles) |->
     LET r == getServiceProductByHandle(handles[k], catalog, failing)
     IN IF r.threw THEN NoProduct ELSE r.product]

byHandlesPOST(body, catalog, failing) ==
  IF ~handlesSchemaOk(body)
  THEN [status |-> 400, code |-> "VALIDATION_ERROR", products |-> <<>>, lookups |-> 0]
  ELSE LET products == Lookups(body, catalog, failing)
           validProducts == SelectSeq(products, LAMBDA q : q # NoProduct)
       IN [status |-> 200, code |-> "", products |-> validProducts,
           lookups |-> Len(body)]

NoPhResponse == [status |-> 0, code |-> "", products |-> <<>>, lookups |-> 0]

\* The route answers the request.
PhHandle ==
  /\ phResponse = NoPhResponse
  /\ phResponse' = byHandlesPOST(phBody, phCatalog, phFailing)
  /\ UNCHANGED <<phCatalog, phFailing, phBody>>
  /\ UNCHANGED notPh

\* The lists of n handles that repeat their first three handles.
HandleLists(n) ==
  {[k \in 1..n |-> first[((k - 1) % 3) + 1]] : first \in [1..3 -> ProductHandles]}

\* Any catalog, any set of failing lookups, a list of up to MaxHandlesSent
\* handles.
PhInit ==
  /\ phCatalog \in SUBSET ProductHandles
  /\ phFailing \in SUBSET ProductHandles
  /\ \E n \in 0..MaxHandlesSent : phBody \in HandleLists(n)
  /\ phResponse = NoPhResponse

PhIdle == PhInit /\ phCatalog = {} /\ phFailing = {} /\ phBody = <<>>

PhStep == PhHandle

\* ================================================= server tier (cart-server)
\* cookieStore.get(CART_ID_KEY)?.value || null  (0: no cookie)
serverGetCartId(ck) == ck

\* cookieStore.set(CART_ID_KEY, cartId, ...)
serverSaveCartId(ck, cartId) == cartId

\* Results of the server functions: [threw, cart, created, shop, cookie].
ServerResult(threw, c, isNew, s, ck) ==
  [threw |-> threw, cart |-> c, created |-> isNew, shop |-> s, cookie |-> ck]

\* getExistingCart(): the cart of the cookie's id, null without a cookie, when
\* the backend has no such cart and when the fetch fails.
\* Mutant: a failing fetch is not caught.
getExistingCartUncaught(s, ck, upstream) ==
  LET cartId == serverGetCartId(ck)
  IN IF cartId = 0 THEN ServerResult(FALSE, NullCart, FALSE, s, ck)
     ELSE LET r == getCart(s, cartId, upstream)
          IN ServerResult(r.threw, r.cart, FALSE, s, ck)

getExistingCart(s, ck, upstream) ==
  LET cartId == serverGetCartId(ck)
  IN IF cartId = 0 THEN ServerResult(FALSE, NullCart, FALSE, s, ck)
     ELSE LET r == getCart(s, cartId, upstream)
          IN IF r.threw THEN ServerResult(FALSE, NullCart, FALSE, s, ck)
             ELSE ServerResult(FALSE, r.cart, FALSE, s, ck)

createAndSaveCart(s, ck, upstream) ==
  LET r == createCart(s, upstream)
  IN IF r.threw THEN ServerResult(TRUE, NullCart, FALSE, s, ck)
     ELSE ServerResult(FALSE, r.cart, TRUE, r.shop, serverSaveCartId(ck, r.cart.id))

\* getOrCreateCart(): the existing cart, or a new cart whose id is not saved.
getOrCreateCart(s, ck, upstreamGet, upstreamCreate) ==
  LET existing == getExistingCart(s, ck, upstreamGet)
      existingCart == existing.cart
  IN IF existing.threw THEN existing
     ELSE IF existingCart # NullCart
     THEN ServerResult(FALSE, existingCart, FALSE, s, ck)
     ELSE LET r == createCart(s, upstreamCreate)
          IN IF r.threw THEN ServerResult(TRUE, NullCart, FALSE, s, ck)
             ELSE ServerResult(FALSE, r.cart, TRUE, r.shop, ck)

NoServerCall ==
  [fn |-> "", threw |-> FALSE, cart |-> NullCart, created |-> FALSE,
   cookie |-> 0, stored |-> 0, carts |-> 0, cartsAfter |-> 0, met |-> <<>>,
   upstream |-> ""]

\* One call of a server function: `r` is its result, `upstream` the backend's
\* answer to its first request.
ServerCall(fn, r, upstream) ==
  /\ r.created => Len(shop) < MaxCarts
  /\ shop' = r.shop
  /\ cookie' = r.cookie
  /\ srvLast' = [fn |-> fn, threw |-> r.threw, cart |-> r.cart,
                 created |-> r.created, cookie |-> serverGetCartId(r.cookie),
                 stored |-> cookie, carts |-> Len(shop),
                 cartsAfter |-> Len(r.shop), met |-> shop, upstream |-> upstream]
  /\ UNCHANGED <<localStorage, cart, isLoading, error, calls, startId,
                 onlyAdds, started, sent, created, last, lastOk>>
  /\ UNCHANGED <<mwVars, rvVars, ctVars, apiVars, phVars>>

SrvCreateAndSaveCart(upstream) ==
  ServerCall("createAndSaveCart", createAndSaveCart(shop, cookie, upstream),
             upstream)

\* Without a cookie getExistingCart makes no request to the backend.
SrvGetOrCreateCart(upstreamGet, upstreamCreate) ==
  /\ serverGetCartId(cookie) = 0 => upstreamGet = "ok"
  /\ ServerCall("getOrCreateCart",
                getOrCreateCart(shop, cookie, upstreamGet, upstreamCreate),
                upstreamGet)

SrvGetExistingCart(upstream) ==
  /\ serverGetCartId(cookie) = 0 => upstream = "ok"
  /\ ServerCall("getExistingCart", getExistingCart(shop, cookie, upstream),
                upstream)

\* The cookie reaches its maxAge (30 days) and the browser drops it.
SrvCookieGone ==
  /\ cookie # 0
  /\ cookie' = 0
  /\ UNCHANGED <<shop, localStorage, cart, isLoading, error, calls, startId,
                 onlyAdds, started, sent, created, last, lastOk>>
  /\ UNCHANGED notCart

SrvIdle == srvLast = NoServerCall

SrvStep ==
  \/ \E upstream \in {"ok"} \cup UpstreamDetails : SrvCreateAndSaveCart(upstream)
  \/ \E upstreamGet, upstreamCreate \in {"ok"} \cup UpstreamDetails :
       SrvGetOrCreateCart(upstreamGet, upstreamCreate)
  \/ \E upstream \in {"ok"} \cup UpstreamDetails : SrvGetExistingCart(upstream)
  \/ SrvCookieGone
  \/ \E id \in 1..Len(shop) : ExpireCart(id)

\* ============================================================ specifications
CartIdle == CartInit /\ startId = 0
MwIdle == MwInit /\ jar = NoCookie

Next == CartStep(FALSE)
SeqNext == CartStep(TRUE)
BulkNext == BulkStep
MwNext == MwStep
RvNext == RvStep
CtNext == CtStep
ApiNext == ApiStep
PhNext == PhStep
SrvNext == SrvStep

vars == <<cartVars, mwVars, rvVars, ctVars, apiVars, phVars, srvVars>>

\* the parts a specification does not exercise stay as they start
Others == MwIdle /\ RvIdle /\ CtInit /\ ApiIdle /\ PhIdle /\ SrvIdle

Init == CartInit /\ Others
BulkInit == CartIdle /\ Others
MwOnlyInit == MwInit /\ CartIdle /\ RvIdle /\ CtInit /\ ApiIdle /\ PhIdle /\ SrvIdle
RvOnlyInit == RvInit /\ CartIdle /\ MwIdle /\ CtInit /\ ApiIdle /\ PhIdle /\ SrvIdle
CtOnlyInit == CtInit /\ CartIdle /\ MwIdle /\ RvIdle /\ ApiIdle /\ PhIdle /\ SrvIdle
ApiInit == CartInit /\ Others
SrvInit == CartInit /\ Others
PhOnlyInit == PhInit /\ CartIdle /\ MwIdle /\ RvIdle /\ CtInit /\ ApiIdle /\ SrvIdle

\* calls of the context functions may overlap
Spec == Init /\ [][Next]_vars
\* every call is awaited before the next is made
SeqSpec == Init /\ [][SeqNext]_vars
\* a first visit that fills one cart
BulkSpec == BulkInit /\ [][BulkNext]_vars
\* requests through the middleware
MwSpec == MwOnlyInit /\ [][MwNext]_vars
\* product views and renders of the recently-viewed section
RvSpec == RvOnlyInit /\ [][RvNext]_vars
\* reads and refreshes of the cached content
CtSpec == CtOnlyInit /\ [][CtNext]_vars
\* requests of any HTTP client to /api/cart
ApiSpec == ApiInit /\ [][ApiNext]_vars
\* one request to /api/products/by-handles
PhSpec == PhOnlyInit /\ [][PhNext]_vars
\* The request of call i is answered or its fetch rejects.
Responds(i) ==
  /\ i \in 1..Len(calls)
  /\ \/ \E u \in Upstreams : Deliver(i, u)
     \/ NetworkFail(i)

\* The continuation of call i runs once its response is there.
Continues(i) ==
  /\ i \in 1..Len(calls)
  /\ \/ HandleCreate(i) \/ HandleGet(i) \/ HandleAdd(i) \/ HandleRemove(i)

\* overlapping calls, every request answered and every continuation run
LiveSpec ==
  /\ Init /\ [][Next]_vars
  /\ \A i \in 1..MaxCalls : WF_vars(Responds(i)) /\ WF_vars(Continues(i))
\* calls of the server functions of lib/cart-server.ts
SrvSpec == SrvInit /\ [][SrvNext]_vars

\* ==================================================================== claims

\* C1 as stated: starting with no stored identifier, a sequence of awaited
\* addToCart calls sends exactly one create-cart request, and every add-line
\* request carries the identifier of that one cart.
C1_ExactlyOneCreateRequest ==
  (startId = 0 /\ onlyAdds /\ calls # <<>> /\ Settled)
    => /\ sent.create = 1
       /\ Cardinality(created) <= 1
       /\ sent.addIds \subseteq created

\* C1 as amended: starting with no stored identifier, in a sequence of awaited
\* addToCart calls at most one create-cart request is answered successfully,
\* no create-cart request is in flight or sent once one has succeeded, the
\* identifier stored is that of the one cart created, and every add-line
\* request carries the identifier of that cart.
C1_OneCartCreated ==
  (startId = 0 /\ onlyAdds)
    => /\ Cardinality(created) <= 1
       /\ sent.addIds \subseteq created
       /\ created = (IF localStorage = 0 THEN {} ELSE {localStorage})
       /\ \A i \in 1..Len(calls) :
            (calls[i].pc # "done" /\ calls[i].req.action = "create") => created = {}

\* Two awaited addToCart calls, both successful, on the one cart created.
C1_Witness ==
  /\ startId = 0 /\ onlyAdds /\ Settled
  /\ Len(calls) >= 2
  /\ sent.create = 1 /\ sent.total = 3
  /\ sent.addIds = created /\ Cardinality(created) = 1
  /\ cart.totalQuantity = 2

\* C2: a refreshCart whose stored identifier was answered 404 has discarded
\* that identifier while it creates a fresh cart, and when the creation
\* succeeds it ends with the new, empty cart as the mirror, the new cart's id
\* stored, isLoading false and error null.
C2_RefreshReplacesGoneCart ==
  /\ \A i \in 1..Len(calls) :
       (calls[i].kind = "refreshCart" /\ calls[i].gone # 0)
         => (calls[i].req.action = "create" /\ localStorage = 0)
  /\ (Settled /\ last.kind = "refreshCart" /\ last.gone # 0 /\ last.result = NoMessage)
       => /\ cart # NullCart
          /\ cart = lastOk
          /\ cart.id \in created
          /\ cart.id # last.gone
          /\ cart.lines = <<>>
          /\ localStorage = cart.id
          /\ isLoading = FALSE
          /\ error = NoMessage

\* A refreshCart that met a 404 and created the replacement cart.
C2_Witness ==
  /\ Settled
  /\ last.kind = "refreshCart" /\ last.gone # 0 /\ last.result = NoMessage
  /\ startId = last.gone
  /\ localStorage # startId

\* C3: the cart mirror is null or the cart carried by the most recently
\* handled successful response of /api/cart; nothing else is ever shown.
C3_MirrorIsLastResponse ==
  cart = NullCart \/ cart = lastOk

\* The mirror still shows the last successful response, which has lines,
\* after an overlapping call failed.
C3_Witness ==
  /\ cart # NullCart /\ cart = lastOk
  /\ cart.totalQuantity >= 1
  /\ error # NoMessage
  /\ last.result # NoMessage

\* C4 as stated: every cart returned by a mutation and every cart held as the
\* mirror has totalQuantity equal to the sum of the quantities of its lines.
C4_TotalQuantityIsSumOfLines ==
  /\ cart # NullCart => cart.totalQuantity = SumQuantity(cart.lines)
  /\ \A i \in 1..Len(calls) :
       (calls[i].pc = "resp" /\ ResponseOk(calls[i].resp)
          /\ calls[i].req.action \in {"create", "add", "remove"})
         => calls[i].resp.cart.totalQuantity = SumQuantity(calls[i].resp.cart.lines)

\* C10: a removeFromCart made while no identifier is stored rejects with
\* "No cart found", sends no request and leaves cart, isLoading and error
\* (and the store) as they were.
C10_RemoveWithoutCart ==
  [][(/\ Len(calls') = Len(calls) + 1
      /\ localStorage = 0
      /\ \/ calls'[Len(calls')].kind = "removeFromCart"
         \/ (calls'[Len(calls')] = DoneCall /\ last'.kind = "removeFromCart"))
       => /\ calls'[Len(calls')] = DoneCall
          /\ last'.kind = "removeFromCart"
          /\ last'.result = <<"No cart found">>
          /\ last'.gone = 0
          /\ sent' = sent
          /\ cart' = cart /\ isLoading' = isLoading /\ error' = error
          /\ localStorage' = localStorage]_vars

\* removeFromCart was refused while an addToCart was creating the cart: the
\* loading flag of that call is still up.
C10_Witness ==
  /\ last.kind = "removeFromCart" /\ last.result = <<"No cart found">>
  /\ localStorage = 0
  /\ isLoading = TRUE
  /\ sent.total = 1

\* The client identity as the claim words it: the first x-forwarded-for entry,
\* else x-real-ip, else "unknown", joined by "-" with the user-agent or
\* "unknown".
ClaimedIdentity(request) ==
  LET first == IF request.xff = Absent THEN <<>>
               ELSE SubSeq(request.xff, 1,
                           Min(Len(request.xff),
                               CHOOSE n \in 0..Len(request.xff) :
                                 /\ \A k \in 1..n : request.xff[k] # 44
                                 /\ (n < Len(request.xff) => request.xff[n + 1] = 44)))
      ip == IF first # <<>> THEN first
            ELSE IF request.realIp \notin {Absent, <<>>} THEN request.realIp
            ELSE <<117, 110, 107, 110, 111, 119, 110>>
      agent == IF request.userAgent \notin {Absent, <<>>} THEN request.userAgent
               ELSE <<117, 110, 107, 110, 111, 119, 110>>
  IN ip \o <<45>> \o agent

\* C5: while the browser sends back the cookie it was last given, every
\* response reports in x-ab-heroCta the variant of the first response, that
\* variant is the cookie the browser holds, and no response after the first
\* sets the cookie again, whatever the address and user-agent of the request.
C5_VariantIsSticky ==
  mwCount >= 1
    => /\ mwLast.header = mwFirst
       /\ jar = mwFirst
       /\ IsVariant(HeroCtaVariants, mwFirst)
       /\ (mwCount >= 2 => mwLast.setCookie = NoCookie)

\* A later request whose identity alone would be given the other variant.
C5_Witness ==
  /\ mwCount >= 2
  /\ mwLast.header = mwFirst
  /\ assignVariant(HeroCtaVariants, getUserIdentifier(mwLast.request)) # mwFirst

\* C6: two requests without a variant cookie that have the same client
\* identity are given the same variant.
C6_VariantDependsOnIdentityOnly ==
  (mwPrevAssign # NoAssign /\ mwLastAssign # NoAssign
     /\ ClaimedIdentity(mwPrevAssign.request) = ClaimedIdentity(mwLastAssign.request))
    => mwPrevAssign.variant = mwLastAssign.variant

\* Two requests with different headers and the same identity, given the same
\* variant, after a request with another identity was given the other one.
C6_Witness ==
  /\ mwPrevAssign # NoAssign /\ mwLastAssign # NoAssign
  /\ mwPrevAssign.request # mwLastAssign.request
  /\ mwPrevAssign.request.xff # mwLastAssign.request.xff
  /\ ClaimedIdentity(mwPrevAssign.request) = ClaimedIdentity(mwLastAssign.request)
  /\ mwPrevAssign.variant = "variant-a"

\* The handles of a stored text that is a list of strings.
IsHandleList(store) ==
  /\ store.present
  /\ ~JSONparse(store.text).threw
  /\ JSONparse(store.text).value.k = "array"
  /\ \A k \in 1..Len(JSONparse(store.text).value.items) :
       JSONparse(store.text).value.items[k].ty = "string"

HandlesOf(store) ==
  LET items == JSONparse(store.text).value.items
  IN [k \in 1..Len(items) |-> items[k].v]

\* L before the call: the stored list, the empty list if nothing is stored.
ListBefore(store) == IF store.present THEN HandlesOf(store) ELSE <<>>

\* h followed by L without h, cut to its first three elements
Expected(h, L) ==
  LET rest == SelectSeq(L, LAMBDA x : x # h)
      all == <<h>> \o rest
  IN SubSeq(all, 1, IF Len(all) < 3 THEN Len(all) ELSE 3)

\* C7: addToRecentlyViewed(h) on a stored list L stores the first 3 elements
\* of h followed by L without h, in both implementations; a, b, c, a added to
\* an empty store leaves exactly [a, c, b].
C7_AddMovesToFront ==
  /\ (rvLastAdd # NoAdd /\ (~rvLastAdd.before.present \/ IsHandleList(rvLastAdd.before)))
       => /\ IsHandleList(rvLastAdd.after)
          /\ HandlesOf(rvLastAdd.after)
               = Expected(rvLastAdd.handle, ListBefore(rvLastAdd.before))
  /\ (rvClean /\ rvLog = <<"a", "b", "c", "a">>)
       => /\ IsHandleList(rvStore)
          /\ HandlesOf(rvStore) = <<"a", "c", "b">>

\* a, b, c, a have been added to an empty store.
C7_Witness ==
  /\ rvClean /\ rvLog = <<"a", "b", "c", "a">>
  /\ rvLastAdd.handle = "a"
  /\ IsHandleList(rvLastAdd.before)
  /\ HandlesOf(rvLastAdd.before) = <<"c", "b", "a">>

\* position of the last view of handle h in the log (0: never viewed)
LastViewed(h) ==
  IF \E k \in 1..Len(rvLog) : rvLog[k] = h
  THEN CHOOSE k \in 1..Len(rvLog) :
         rvLog[k] = h /\ \A m \in (k + 1)..Len(rvLog) : rvLog[m] # h
  ELSE 0

\* C8: after any sequence of addToRecentlyViewed calls from an empty store the
\* stored list has at most 3 entries, no handle twice, and lists the handles
\* most recently viewed, the latest view first.
C8_ListIsCappedDistinctRecentFirst ==
  (rvClean /\ rvLog # <<>>)
    => /\ IsHandleList(rvStore)
       /\ LET L == HandlesOf(rvStore)
          IN /\ Len(L) <= 3
             /\ \A i, j \in 1..Len(L) : i # j => L[i] # L[j]
             /\ L[1] = rvLog[Len(rvLog)]
             /\ \A i \in 1..Len(L) : LastViewed(L[i]) > 0
             /\ \A i, j \in 1..Len(L) : i < j => LastViewed(L[i]) > LastViewed(L[j])
             /\ \A h \in Handles :
                  (LastViewed(h) > 0 /\ \A i \in 1..Len(L) : L[i] # h)
                    => /\ Len(L) = 3
                       /\ LastViewed(h) < LastViewed(L[3])

\* Five views of four handles: one handle viewed again, one handle evicted.
C8_Witness ==
  /\ rvClean /\ Len(rvLog) = MaxViews
  /\ \E i, j \in 1..Len(rvLog) : i < j /\ rvLog[i] = rvLog[j]
  /\ \A h \in Handles : LastViewed(h) > 0
  /\ Len(HandlesOf(rvStore)) = 3

\* The stored value is corrupt: no JSON, or JSON that is no list of strings.
Corrupt(store) == store.present /\ ~IsHandleList(store)

\* C9: when the stored value is corrupt, getRecentlyViewed returns the empty
\* list without raising, in both implementations, and the RecentlyViewed
\* section renders.
C9_CorruptValueReadsAsEmpty ==
  (rvGet # NoRender /\ Corrupt(rvGet.before))
    => /\ ~rvGet.threw
       /\ rvGet.value = Array(<<>>)
       /\ rvGet.rendered

\* C11: when the add-line request of an awaited addToCart, or the remove-line
\* request of an awaited removeFromCart, fails for a cart whose identifier was
\* stored when the call was made, error holds the message the call rejects
\* with, isLoading is false, and the mirror and the stored identifier are
\* those of before the call.
C11_FailedChangeKeepsCart ==
  (Settled /\ last.kind \in {"addToCart", "removeFromCart"}
     /\ last.before.cartId # 0 /\ last.result # NoMessage)
    => /\ error = last.result
       /\ isLoading = FALSE
       /\ cart = last.before.cart
       /\ localStorage = last.before.cartId

\* An addToCart has failed while the mirror showed a cart with an item in it.
C11_Witness ==
  /\ Settled /\ last.kind = "addToCart"
  /\ last.before.cartId # 0 /\ last.result # NoMessage
  /\ last.before.cart # NullCart /\ last.before.cart.totalQuantity >= 1
  /\ cart = last.before.cart

\* C12: once a refresh has stored a non-null value for getHomepageContent or
\* getPageBySlug, a refresh whose fetch fails does not replace it: the cache
\* holds the last good value, which is what readers receive, until a refresh
\* succeeds.
C12_FailedRefreshKeepsLastGood ==
  \A key \in CachedKeys :
    (~ctGood[key].isNull /\ ctFailing[key])
      => ctCache[key].present /\ ctCache[key].value = ctGood[key]

\* C13: getHomepageContent, getPageBySlug and getServiceContent never raise
\* and return null when the call of the content backend fails, and the About
\* page given null renders its fallback heading and text.
C13_ContentFetchNeverRaises ==
  /\ ~ctCall.threw
  /\ ~ctRead.threw
  /\ (ctCall.outcome \in ContentFailures => ctCall.value = NullContent)
  /\ ~ctAbout.threw
  /\ (ctAbout # NoAbout /\ ctAbout.given = NullContent)
       => /\ ctAbout.heading = "About TurnSet Clean"
          /\ ctAbout.body = "Content coming soon"

\* The About page has just rendered from a fetch that could not build its
\* client, after the service content failed to load.
C13_Witness ==
  /\ ctCall.fn = "getPageBySlug" /\ ctCall.outcome = "env"
  /\ ctRead.key = "about" /\ ctRead.value = NullContent
  /\ ctAbout.given = NullContent /\ ctAbout.heading = "About TurnSet Clean"

\* The body is malformed in the way the claim lists: cartId or variantId
\* missing or no string, a quantity that is no positive integer, lineIds
\* empty or no list of strings.
MalformedAdd(body) ==
  \/ body.cartId.ty # "string"
  \/ body.variantId.ty # "string"
  \/ /\ body.quantity.ty # "undefined"
     /\ ~(body.quantity.ty = "number" /\ body.quantity.d = 1 /\ body.quantity.n >= 1)

MalformedRemove(body) ==
  \/ body.cartId.ty # "string"
  \/ body.lineIds.ty # "array"
  \/ body.lineIds.items = {}
  \/ \E item \in body.lineIds.items : item.ty # "string"

\* C14: a POST with action add or remove and a malformed body is answered 400
\* VALIDATION_ERROR, a POST with an unknown action is answered 400, and in
\* both cases no function of the commerce backend is called and the backend
\* is left as it was.
C14_MalformedBodyIsRefused ==
  /\ ((apiLast.body.action = "add" /\ MalformedAdd(apiLast.body))
        \/ (apiLast.body.action = "remove" /\ MalformedRemove(apiLast.body)))
       => /\ apiLast.response.status = 400
          /\ apiLast.response.code = "VALIDATION_ERROR"
          /\ apiLast.called = ""
          /\ apiLast.after = apiLast.before
  /\ apiLast.body.action = "clear"
       => /\ apiLast.response.status = 400
          /\ apiLast.called = ""
          /\ apiLast.after = apiLast.before

\* A request to add one and a half items to a cart that exists was refused.
C14_Witness ==
  /\ apiLast.body.action = "add"
  /\ apiLast.body.cartId = String(1) /\ IsLive(shop, 1)
  /\ apiLast.body.variantId = String(1)
  /\ apiLast.body.quantity = Number(3, 2)
  /\ apiLast.response.code = "VALIDATION_ERROR"

\* C15: a response of GET /api/cart that is 404 says 'Cart not found', one
\* that is 200 carries the cart asked for, and no answer is given to a request
\* without cartId but 400; the 404 is the only response on which the client
\* discards its stored identifier: a refreshCart or mount that goes on to
\* create a cart after its fetch failed has dropped the identifier only if
\* the fetch was answered 404.
C15_OnlyNotFoundDiscardsIdentifier ==
  \A i \in 1..Len(calls) :
    /\ (calls[i].pc = "resp" /\ calls[i].req.action = "get")
         => /\ calls[i].req.cartId = 0 => calls[i].resp.status \in {0, 400}
            /\ calls[i].resp.status = 404
                 => calls[i].resp.message = <<"Cart not found">>
            /\ calls[i].resp.status = 200
                 => calls[i].resp.cart.id = calls[i].req.cartId
    /\ (calls[i].pc # "done" /\ calls[i].req.action = "create"
          /\ calls[i].before.cartId # 0 /\ localStorage = 0)
         => calls[i].gone = calls[i].before.cartId

\* The handles of the request that the backend resolves, in input order.
Resolved(handles) ==
  SelectSeq(handles, LAMBDA h : h \in phCatalog /\ h \notin phFailing)

\* C16: a request with at most 10 handles is answered 200 with exactly the
\* products of the handles the backend resolves, in the order of the input;
\* a request with more than 10 handles is answered 400 without any lookup.
C16_ProductsOfResolvedHandles ==
  phResponse # NoPhResponse
    => IF Len(phBody) <= 10
       THEN /\ phResponse.status = 200
            /\ Len(phResponse.products) = Len(Resolved(phBody))
            /\ \A k \in 1..Len(phResponse.products) :
                 phResponse.products[k].handle = Resolved(phBody)[k]
       ELSE /\ phResponse.status = 400
            /\ phResponse.lookups = 0

\* Ten handles, of which one is unknown to the backend and one fails to be
\* looked up, and the four products of the third in the answer.
C16_Witness ==
  /\ Len(phBody) = 10
  /\ phCatalog = {"a", "b"} /\ phFailing = {"b"}
  /\ phBody[1] = "c" /\ phBody[2] = "a" /\ phBody[3] = "b"
  /\ phResponse.status = 200
  /\ Len(phResponse.products) = 3

\* C17: a remove-line call for line ids that the cart does not contain ends,
\* once its request has reached the route, in 200 with the unchanged cart or
\* in 500; where the backend reported user errors the 500 carries the message
\* of each of them, joined; the backend's cart is unchanged and the client's
\* mirror is as it was before the call or is the unchanged cart.
LastLineIds == last.req.lineIds
LastCartBefore ==
  CartSelection(last.req.cartId, last.met[last.req.cartId].lines)
RemovedUnknownLines ==
  /\ last.kind = "removeFromCart"
  /\ last.resp.status # 0
  /\ LastLineIds # {}
  /\ IsLive(last.met, last.req.cartId)
  /\ UnknownLines(last.met, last.req.cartId, LastLineIds) = LastLineIds
C18_NewCartIsPersisted ==
  (srvLast.created /\ ~srvLast.threw) => srvLast.cookie = srvLast.cart.id


\* C19: of the client-storage key and the cookie shopify_cart_id, the flow of
\* CartProvider and POST /api/cart writes at most one (the other still holds
\* what it held when the provider was constructed), and when both hold an
\* identifier it is the same one.
C19_OneTierHoldsTheIdentifier ==
  /\ localStorage = startId \/ cookie = startId
  /\ (localStorage # 0 /\ cookie # 0) => localStorage = cookie


\* C20: two requests to /api/cart with the same body that fail in the
\* commerce backend, each with its own raw error detail, are answered with the
\* same 500 response body.
C20_ServerErrorHidesUpstreamDetail ==
  [][(/\ apiLast.response.status = 500
      /\ apiLast'.response.status = 500
      /\ apiLast'.body = apiLast.body
      /\ apiLast.upstream \in UpstreamDetails
      /\ apiLast'.upstream \in UpstreamDetails)
       => apiLast'.response = apiLast.response]_vars


\* C21: when the calls made so far are addToCart and removeFromCart calls,
\* overlapping or not, once every response has been handled the cart mirror
\* is the cart carried by the successful response that was handled last.
C21_LastResponseWins ==
  (Settled /\ started \subseteq {"addToCart", "removeFromCart"})
    => cart = lastOk

\* An add and a remove overlapped and both succeeded; the response handled
\* last is the mirror although the backend's cart has moved on from it.
C21_Witness ==
  /\ Settled /\ started = {"addToCart", "removeFromCart"}
  /\ Len(calls) = 2
  /\ error = NoMessage /\ last.result = NoMessage
  /\ cart = lastOk /\ cart # NullCart
  /\ IsLive(shop, cart.id)
  /\ cart # CartSelection(cart.id, shop[cart.id].lines)


\* C22: when every call is awaited before the next is made, an addToCart or
\* removeFromCart that succeeded was applied by the backend to the state its
\* predecessors left, and the cart mirror is the backend's state of that cart.
C22_SequentialCallsApplyInOrder ==
  (Settled /\ last.kind \in {"addToCart", "removeFromCart"}
     /\ last.result = NoMessage)
    => LET id == last.req.cartId
           met == last.met[id].lines
       IN /\ cart.id = id
          /\ cart = CartSelection(id, shop[id].lines)
          /\ shop[id].lines =
               IF last.kind = "addToCart"
               THEN LinesAdd(met, last.req.variantId, last.req.quantity)
               ELSE LinesRemove(met, last.req.lineIds)

\* A first visit: create, add, then remove of the line added, each awaited.
C22_Witness ==
  /\ Settled /\ startId = 0
  /\ started = {"addToCart", "removeFromCart"}
  /\ last.kind = "removeFromCart" /\ last.result = NoMessage
  /\ sent.create = 1 /\ sent.total = 3
  /\ last.met[last.req.cartId].lines # <<>>
  /\ cart.lines = <<>>


\* C23: while an addToCart that began with no stored identifier is in flight
\* (every call awaited, so it is the only one), isLoading is true; in
\* particular it is true while the add-line request for the cart just created
\* is outstanding.
C23_AddToCartIsOneTransition ==
  \A i \in 1..Len(calls) :
    (calls[i].kind = "addToCart" /\ calls[i].pc # "done"
       /\ calls[i].before.cartId = 0)
      => isLoading


\* C24: a refreshCart or load on mount that found an identifier stored and
\* whose fetch failed without being answered 404 (it went on to createCart
\* all the same) ends with the stored identifier and the cart mirror as they
\* were when it began and with the failure in error.
C24_OnlyNotFoundReplacesIdentifier ==
  (/\ Settled
   /\ last.kind \in {"refreshCart", "mount"}
   /\ last.before.cartId # 0
   /\ last.req.action = "create"
   /\ last.gone = 0)
    => /\ localStorage = last.before.cartId
       /\ cart = last.before.cart
       /\ error # NoMessage


\* C27: starting with no stored identifier, addToCart calls that may overlap
\* have at most one cart created for them, and every add-line request carries
\* the identifier of that cart.
C27_OverlappingAddsShareOneCart ==
  (startId = 0 /\ onlyAdds)
    => /\ Cardinality(created) <= 1
       /\ Cardinality(sent.addIds) <= 1

\* C28: when no operation is in flight and the cart mirror is not null, the
\* mirror's id is the identifier held in client storage.
C28_MirrorIsStoredCart ==
  (Settled /\ cart # NullCart) => cart.id = localStorage


\* C29: with every request answered, a cart context that is loading comes to
\* a state with no operation in flight and isLoading false, and isLoading is
\* false whenever no operation is in flight.
C29_LoadingEnds ==
  /\ [](Settled => ~isLoading)
  /\ isLoading ~> (Settled /\ ~isLoading)

\* Two overlapping calls have both failed and the context is not loading.
C29_Witness ==
  /\ Settled /\ ~isLoading
  /\ Len(calls) = 2 /\ \A i \in 1..2 : calls[i] = DoneCall
  /\ lastOk = NullCart /\ sent.total >= 2
  /\ error # NoMessage


\* C25: the response to a request sets the cookie ab_hero_cta exactly when
\* the request carries no cookie with a declared variant as its value (an
\* undeclared value is replaced); the x-ab-heroCta header is a declared
\* variant and is the cookie value the browser holds after the response.
DeclaredVariants == {HeroCtaVariants[k] : k \in 1..Len(HeroCtaVariants)}
C25_CookieSetExactlyWhenNeeded ==
  mwLast # NoExchange
    => /\ (mwLast.setCookie # NoCookie) <=> (mwLast.request.cookie \notin DeclaredVariants)
       /\ mwLast.setCookie # NoCookie => mwLast.setCookie = mwLast.header
       /\ mwLast.header \in DeclaredVariants
       /\ jar = mwLast.header

\* A browser that held a value no test declares was given a declared variant.
C25_Witness ==
  /\ mwLast # NoExchange
  /\ mwLast.request.cookie = "bogus"
  /\ mwLast.setCookie \in DeclaredVariants
  /\ jar = mwLast.setCookie


\* C26: the hash assignVariant computes for the identity of a request is the
\* result of h := 31 * h + charCode, wrapped to 32 bits, from 0 over the
\* characters of the identity; |h| mod n lies in 0..n-1 for every number n of
\* declared variants, also for the hash -2^31; and the variant assigned is
\* the declared variant of that index.
Times31Plus(w, char) ==
  LET lo == w.lo * 31 + char
      hi == w.hi * 31 + lo \div 65536
  IN [hi |-> hi % 65536, lo |-> lo % 65536]
RECURSIVE Recurrence(_, _)
Recurrence(identity, n) ==
  IF n = 0 THEN Zero32 ELSE Times31Plus(Recurrence(identity, n - 1), identity[n])
LastHash == HashFrom(Zero32, getUserIdentifier(mwLast.request), 1)
MinInt32 == [hi |-> 32768, lo |-> 0]
C26_HashSelectsDeclaredVariant ==
  mwLast # NoExchange
    => LET identity == getUserIdentifier(mwLast.request)
       IN /\ LastHash = Recurrence(identity, Len(identity))
          /\ \A n \in 1..MaxVariants : AbsMod(LastHash, n) \in 0..(n - 1)
          /\ LastHash = MinInt32 => AbsMod(LastHash, 3) = 2
          /\ mwLast.setCookie # NoCookie
               => mwLast.header = HeroCtaVariants[AbsMod(LastHash, 2) + 1]

\* A variant was assigned to the identity "8bkwyyy-unknown", whose hash is
\* -2^31.
C26_Witness ==
  /\ mwLast # NoExchange
  /\ LastHash = MinInt32
  /\ mwLast.setCookie = "control"


\* C30: getExistingCart does not raise, creates no cart and leaves the cookie
\* as it was; it returns the backend's cart for the cookie's identifier, and
\* null when there is no cookie, when the backend has no such cart and when
\* the fetch fails.
C30_GetExistingCartOnlyReads ==
  srvLast.fn = "getExistingCart"
    => /\ ~srvLast.threw
       /\ ~srvLast.created
       /\ srvLast.cartsAfter = srvLast.carts
       /\ srvLast.cookie = srvLast.stored
       /\ srvLast.cart =
            IF srvLast.stored # 0 /\ srvLast.upstream = "ok"
               /\ IsLive(srvLast.met, srvLast.stored)
            THEN CartSelection(srvLast.stored, srvLast.met[srvLast.stored].lines)
            ELSE NullCart

\* The fetch for the cookie's cart failed: null was returned and the cookie
\* kept.
C30_Witness ==
  /\ srvLast.fn = "getExistingCart"
  /\ srvLast.stored # 0 /\ IsLive(srvLast.met, srvLast.stored)
  /\ srvLast.upstream = "throttled"
  /\ srvLast.cart = NullCart
  /\ cookie = srvLast.stored

====
